---- MODULE Spec2Model ----
(***************************************************************************)
(* A model of the ECS registry of src/src/ecs.js: the entity list, the     *)
(* system list, the attachment of entities to systems, and the update      *)
(* dispatch in its two traversal orders.                                   *)
(*                                                                         *)
(* Entity, System and fastSplice are imported by ecs.js (./entity,         *)
(* ./system, ./utils); their behaviour is taken from the specification     *)
(* (spec.md sections 3, 4.1, 4.3 and 6).                                   *)
(*                                                                         *)
(* Lists are TLA+ sequences; indices are JavaScript's (0-based), read      *)
(* through At.  indexOf's "not found" is -1.                               *)
(***************************************************************************)
EXTENDS Integers, Sequences, FiniteSets, TLC

\* The entity and system objects the callers construct, and the component
\* names they use.
Entities == {"e1", "e2"}
Systems == {"s1", "s2"}
Components == {"pos", "vel"}

\* Bounds of the model.
MaxTicks == 3
MaxLen == 2
MaxDepth == 2
MaxCallbacks == 1

\* The frequencies the systems are constructed with, and the ids looked up.
Frequencies == {1, 2}
Ids == {0, 1, 2, 3}

VARIABLES
    systemsFirst,   \* this.systemsFirst                      (ecs.js:23)
    entities,       \* this.entities                          (ecs.js:30)
    systems,        \* this.systems                           (ecs.js:37)
    updateCounter,  \* this.updateCounter                     (ecs.js:44)
    lastUpdate,     \* this.lastUpdate                        (ecs.js:51)
    clock,          \* performance.now(): the number of readings taken so far
    esystems,       \* entity.systems, the membership cache   (ecs.js:164)
    sentities,      \* system.entities, the tracked list      (ecs.js:183)
    eecs,           \* entity.ecs is this registry            (ecs.js:80)
    components,     \* the component names each entity carries
    enable,         \* system.enable                          (ecs.js:167)
    frequency,      \* system.frequency                       (ecs.js:167)
    stack,          \* the update() calls in progress, innermost last
    initialized,    \* history: per system, the initialize() calls made on it
                    \* minus the dispose() calls made on it
    completed,      \* history: the number of update() calls that returned
    last            \* history: the last call that returned, what it returned
                    \* and the calls it made

vars == <<systemsFirst, entities, systems, updateCounter, lastUpdate, clock,
          esystems, sentities, eecs, components, enable, frequency, stack,
          initialized, completed, last>>

\* What the membership operations leave alone.
ticking == <<updateCounter, lastUpdate, clock, stack, completed>>
objects == <<systemsFirst, components, enable, frequency>>

----------------------------------------------------------------------------
\* Array helpers.

At(seq, i) == seq[i + 1]

Range(seq) == {seq[k] : k \in 1..Len(seq)}

Count(seq, x) == Cardinality({k \in 1..Len(seq) : seq[k] = x})

\* Array.prototype.indexOf: the first index holding x, -1 when there is none.
IndexOf(seq, x) ==
    IF \E k \in 1..Len(seq) : seq[k] = x
    THEN (CHOOSE k \in 1..Len(seq) :
              seq[k] = x /\ \A h \in 1..(k - 1) : seq[h] # x) - 1
    ELSE -1

\* fastSplice(array, index, 1): the element at index is overwritten with the
\* last element and the array shrinks by one.
FastSplice(array, index) ==
    IF index < 0 \/ index >= Len(array)
    THEN array
    ELSE SubSeq([array EXCEPT ![index + 1] = array[Len(array)]],
                1, Len(array) - 1)

----------------------------------------------------------------------------
\* Entity and System.

\* entity.id: unique among the entities.
EntityId == [e \in Entities |-> IF e = "e1" THEN 1 ELSE 2]

\* The component names a system requires.
Required == [s \in Systems |-> IF s = "s1" THEN {"pos"} ELSE {"pos", "vel"}]

\* system.test(entity): every required component name is present.
Test(s, e) == Required[s] \subseteq components[e]

\* The two sides of the attachment, as one value.
Links == [es |-> esystems, se |-> sentities]

\* system.addEntity(entity): the system joins the entity's membership cache
\* and the entity joins the system's tracked list.
SystemAddEntity(m, s, e) ==
    [es |-> [m.es EXCEPT ![e] = Append(@, s)],
     se |-> [m.se EXCEPT ![s] = Append(@, e)]]

\* system.removeEntity(entity): unordered removal from the tracked list.
SystemRemoveEntity(m, s, e) ==
    [es |-> m.es,
     se |-> [m.se EXCEPT ![s] = FastSplice(@, IndexOf(@, e))]]

\* entity.dispose(): the entity leaves the tracked list of every system in
\* its membership cache, and the cache is cleared.
RECURSIVE EntityDisposeLoop(_, _, _, _)
EntityDisposeLoop(m, cache, e, k) ==
    IF k >= Len(cache)
    THEN m
    ELSE EntityDisposeLoop(SystemRemoveEntity(m, At(cache, k), e), cache, e, k + 1)

\* A disposal that detaches the entity but keeps its membership cache.
EntityDisposeKeepCache(m, e) == EntityDisposeLoop(m, m.es[e], e, 0)

\* A disposal that forgets the tracked lists: it only clears the cache.
EntityDisposeCacheOnly(m, e) ==
    [es |-> [m.es EXCEPT ![e] = <<>>], se |-> m.se]

EntityDispose(m, e) ==
    LET detached == EntityDisposeLoop(m, m.es[e], e, 0)
    IN  [es |-> [detached.es EXCEPT ![e] = <<>>], se |-> detached.se]

\* system.dispose(): a no-op by default; the entities keep the system in
\* their membership caches.
SystemDispose(m, s) == m

----------------------------------------------------------------------------
\* History.

\* op(arg) or op(id) returned ret, called dispose() iff disposed, made the
\* system.update calls `calls` (pairs <<entity, system>>, in order) and, for
\* addSystem and removeSystem, went through the steps `events` in this order.
CallEvents(op, arg, id, ret, disposed, calls, events) ==
    [op |-> op, arg |-> arg, id |-> id, ret |-> ret, disposed |-> disposed,
     calls |-> calls, events |-> events]

Call(op, arg, id, ret, disposed, calls) ==
    CallEvents(op, arg, id, ret, disposed, calls, <<>>)

----------------------------------------------------------------------------
\* The registry.

\* new ECS(options)
Init ==
    /\ systemsFirst \in BOOLEAN
    /\ entities = <<>>
    /\ systems = <<>>
    /\ updateCounter = 0
    /\ clock = 0
    /\ lastUpdate = 0
    /\ esystems = [e \in Entities |-> <<>>]
    /\ sentities = [s \in Systems |-> <<>>]
    /\ eecs = [e \in Entities |-> FALSE]
    /\ components \in [Entities -> SUBSET Components]
    /\ enable = [s \in Systems |-> TRUE]
    /\ frequency \in [Systems -> Frequencies]
    /\ stack = <<>>
    /\ initialized = [s \in Systems |-> 0]
    /\ completed = 0
    /\ last = Call("new", "none", 0, "undefined", FALSE, <<>>)

\* getEntityById(id): the scan of the entity list.
RECURSIVE GetEntityByIdLoop(_, _)
GetEntityByIdLoop(id, i) ==
    IF i >= Len(entities)
    THEN "null"
    ELSE IF EntityId[At(entities, i)] = id
         THEN At(entities, i)
         ELSE GetEntityByIdLoop(id, i + 1)

\* A scan that starts at index 1.
GetEntityByIdFromOne(id) == GetEntityByIdLoop(id, 1)

GetEntityByIdResult(id) == GetEntityByIdLoop(id, 0)

GetEntityById(id) ==
    /\ stack = <<>>
    /\ last' = Call("getEntityById", "none", id, GetEntityByIdResult(id),
                    FALSE, <<>>)
    /\ UNCHANGED <<entities, systems, initialized,
                   esystems, sentities, eecs, ticking,
                   objects>>

\* addEntity: the loop over this.systems.
RECURSIVE AddEntityLoop(_, _, _)
AddEntityLoop(m, entity, i) ==
    IF i >= Len(systems)
    THEN m
    ELSE LET system == At(systems, i)
         IN  AddEntityLoop(IF Test(system, entity)
                           THEN SystemAddEntity(m, system, entity)
                           ELSE m,
                           entity, i + 1)

AddEntityLinks(entity) == AddEntityLoop(Links, entity, 0)

\* Callers do not add an entity that is registered; the lists stay within
\* MaxLen.
CanAddEntity(entity) ==
    /\ entity \notin Range(entities)
    /\ \A s \in Systems : Len(AddEntityLinks(entity).se[s]) <= MaxLen

\* An addEntity that puts the entity at the front of the list (unshift).
AddEntityListFront(entity) == <<entity>> \o entities

\* this.entities.push(entity)
AddEntityList(entity) == Append(entities, entity)

\* addEntity(entity): what it does to the registry and the objects.
DoAddEntity(entity) ==
    /\ entities' = AddEntityList(entity)
    /\ eecs' = [eecs EXCEPT ![entity] = TRUE]
    /\ esystems' = AddEntityLinks(entity).es
    /\ sentities' = AddEntityLinks(entity).se
    /\ UNCHANGED <<systems, initialized>>

AddEntity(entity) ==
    /\ stack = <<>>
    /\ CanAddEntity(entity)
    /\ DoAddEntity(entity)
    /\ last' = Call("addEntity", entity, 0, "undefined", FALSE, <<>>)
    /\ UNCHANGED <<ticking, objects>>

\* A removeEntity without its index check.
RemoveEntityFoundAlways(entity) == TRUE

\* removeEntity: index !== -1
RemoveEntityFound(entity) == IndexOf(entities, entity) # -1

RemoveEntityLinks(entity) ==
    IF RemoveEntityFound(entity) THEN EntityDispose(Links, entity) ELSE Links

RemoveEntityList(entity) ==
    IF RemoveEntityFound(entity)
    THEN FastSplice(entities, IndexOf(entities, entity))
    ELSE entities

\* removeEntity(entity): what it does to the registry and the objects.
DoRemoveEntity(entity) ==
    /\ entities' = RemoveEntityList(entity)
    /\ esystems' = RemoveEntityLinks(entity).es
    /\ sentities' = RemoveEntityLinks(entity).se
    /\ UNCHANGED <<systems, initialized, eecs>>

RemoveEntity(entity) ==
    /\ stack = <<>>
    /\ DoRemoveEntity(entity)
    /\ last' = Call("removeEntity", entity, 0, entity,
                    RemoveEntityFound(entity), <<>>)
    /\ UNCHANGED <<ticking, objects>>

\* addSystem: the loop over this.entities.
RECURSIVE AddSystemLoop(_, _, _)
AddSystemLoop(m, system, i) ==
    IF i >= Len(entities)
    THEN m
    ELSE LET entity == At(entities, i)
         IN  AddSystemLoop(IF Test(system, entity)
                           THEN SystemAddEntity(m, system, entity)
                           ELSE m,
                           system, i + 1)

\* An addSystem whose loop starts at index 1.
AddSystemLinksFromOne(system) == AddSystemLoop(Links, system, 1)

AddSystemLinks(system) == AddSystemLoop(Links, system, 0)

\* addSystem: its steps in program order.  The system is pushed, initialized,
\* and then every entity of this.entities is tested and, when the test
\* passes, attached.
RECURSIVE AddSystemLoopEvents(_, _)
AddSystemLoopEvents(system, i) ==
    IF i >= Len(entities)
    THEN <<>>
    ELSE LET entity == At(entities, i)
         IN  <<<<"test", entity>>>>
             \o (IF Test(system, entity)
                 THEN <<<<"attach", entity>>>>
                 ELSE <<>>)
             \o AddSystemLoopEvents(system, i + 1)

\* An addSystem that initializes the system after the loop over the entities.
AddSystemEventsInitializeLast(system) ==
    <<<<"push", system>>>> \o AddSystemLoopEvents(system, 0)
    \o <<<<"initialize", system>>>>

AddSystemEvents(system) ==
    <<<<"push", system>>, <<"initialize", system>>>>
    \o AddSystemLoopEvents(system, 0)

\* Callers do not add a system that is registered; the lists stay within
\* MaxLen.
CanAddSystem(system) ==
    /\ system \notin Range(systems)
    /\ Len(AddSystemLinks(system).se[system]) <= MaxLen
    /\ \A e \in Entities : Len(AddSystemLinks(system).es[e]) <= MaxLen

\* addSystem(system): what it does to the registry and the objects.
DoAddSystem(system) ==
    /\ systems' = Append(systems, system)
    /\ esystems' = AddSystemLinks(system).es
    /\ sentities' = AddSystemLinks(system).se
    /\ initialized' =
           [initialized EXCEPT
               ![system] = @ + Count(AddSystemEvents(system),
                                     <<"initialize", system>>)]
    /\ UNCHANGED <<entities, eecs>>

AddSystem(system) ==
    /\ stack = <<>>
    /\ CanAddSystem(system)
    /\ DoAddSystem(system)
    /\ last' = CallEvents("addSystem", system, 0, "undefined", FALSE, <<>>,
                          AddSystemEvents(system))
    /\ UNCHANGED <<ticking, objects>>

\* removeSystem: index !== -1
RemoveSystemFound(system) == IndexOf(systems, system) # -1

\* A removeSystem that splices without its index check: splice(-1, 1) drops
\* the last element.
RemoveSystemListUnchecked(system) ==
    IF RemoveSystemFound(system)
    THEN FastSplice(systems, IndexOf(systems, system))
    ELSE SubSeq(systems, 1, Len(systems) - 1)

RemoveSystemList(system) ==
    IF RemoveSystemFound(system)
    THEN FastSplice(systems, IndexOf(systems, system))
    ELSE systems

RemoveSystemLinks(system) ==
    IF RemoveSystemFound(system) THEN SystemDispose(Links, system) ELSE Links

\* A removeSystem that disposes of the system whether it found it or not.
RemoveSystemEventsUnchecked(system) ==
    (IF RemoveSystemFound(system) THEN <<<<"splice", system>>>> ELSE <<>>)
    \o <<<<"dispose", system>>>>

\* removeSystem: its steps in program order.  A system that is found is
\* spliced out of this.systems and then disposed of.
RemoveSystemEvents(system) ==
    IF RemoveSystemFound(system)
    THEN <<<<"splice", system>>, <<"dispose", system>>>>
    ELSE <<>>

\* removeSystem has no return statement: the call yields undefined.
RemoveSystemReturn(system) == "undefined"

\* removeSystem(system): what it does to the registry and the objects.
DoRemoveSystem(system) ==
    /\ systems' = RemoveSystemList(system)
    /\ esystems' = RemoveSystemLinks(system).es
    /\ sentities' = RemoveSystemLinks(system).se
    /\ initialized' =
           [initialized EXCEPT
               ![system] = @ - Count(RemoveSystemEvents(system),
                                     <<"dispose", system>>)]
    /\ UNCHANGED <<entities, eecs>>

RemoveSystem(system) ==
    /\ stack = <<>>
    /\ DoRemoveSystem(system)
    /\ last' = CallEvents("removeSystem", system, 0,
                          RemoveSystemReturn(system),
                          RemoveSystemFound(system), <<>>,
                          RemoveSystemEvents(system))
    /\ UNCHANGED <<ticking, objects>>

\* A gate that ignores the enable flag.
SkippedNoEnable(system) == updateCounter % frequency[system] > 0

\* The gate of both traversals: the pair is skipped.
Skipped(system) ==
    updateCounter % frequency[system] > 0 \/ ~enable[system]

\* updateEntities: the system.update calls, in order, when no callback changes
\* the lists.
RECURSIVE UpdateEntitiesLoop(_, _, _)
UpdateEntitiesLoop(i, j, calls) ==
    IF i >= Len(entities)
    THEN calls
    ELSE LET entity == At(entities, i)
         IN  IF j >= Len(esystems[entity])
             THEN UpdateEntitiesLoop(i + 1, 0, calls)
             ELSE LET system == At(esystems[entity], j)
                  IN  UpdateEntitiesLoop(i, j + 1,
                          IF Skipped(system)
                          THEN calls
                          ELSE Append(calls, <<entity, system>>))

UpdateEntities == UpdateEntitiesLoop(0, 0, <<>>)

\* updateSystems: the system.update calls, in order, when no callback changes
\* the lists.
RECURSIVE UpdateSystemsLoop(_, _, _)
UpdateSystemsLoop(i, j, calls) ==
    IF i >= Len(systems)
    THEN calls
    ELSE LET system == At(systems, i)
         IN  IF j >= Len(sentities[system])
             THEN UpdateSystemsLoop(i + 1, 0, calls)
             ELSE LET entity == At(sentities[system], j)
                  IN  UpdateSystemsLoop(i, j + 1,
                          IF Skipped(system)
                          THEN calls
                          ELSE Append(calls, <<entity, system>>))

UpdateSystems == UpdateSystemsLoop(0, 0, <<>>)

\* An update() whose outer loop consumes the entity list (a loop written with
\* this.entities.shift() in place of the index).
UpdateConsuming ==
    /\ stack = <<>>
    /\ updateCounter < MaxTicks
    /\ clock' = clock + 1
    /\ lastUpdate' = clock'
    /\ updateCounter' = updateCounter + 1
    /\ completed' = completed + 1
    /\ last' = Call("update", "none", 0, "undefined", FALSE,
                    IF systemsFirst THEN UpdateSystems ELSE UpdateEntities)
    /\ entities' = IF systemsFirst THEN entities ELSE <<>>
    /\ UNCHANGED <<systems, initialized,
                   esystems, sentities, eecs, stack, objects>>

\* update(), with system.update callbacks that leave the registry alone.
Update ==
    /\ stack = <<>>
    /\ updateCounter < MaxTicks
    /\ clock' = clock + 1
    /\ lastUpdate' = clock'
    /\ updateCounter' = updateCounter + 1
    /\ completed' = completed + 1
    /\ last' = Call("update", "none", 0, "undefined", FALSE,
                    IF systemsFirst THEN UpdateSystems ELSE UpdateEntities)
    /\ UNCHANGED <<entities, systems, initialized,
                   esystems, sentities, eecs, stack,
                   objects>>

----------------------------------------------------------------------------
\* update() step by step, with system.update callbacks that call back into
\* the registry.  A frame of the stack is one update() call in progress: its
\* loop indices i and j, the element `cur` the outer loop holds (const entity
\* in updateEntities, const system in updateSystems; "none" between two outer
\* iterations), the time `now` and the tick counter `tick` read at entry, the
\* system.update calls made so far and the registry calls its callbacks made.

Frame(now) ==
    [i |-> 0, j |-> 0, cur |-> "none", now |-> now, tick |-> updateCounter,
     calls |-> <<>>, callbacks |-> <<>>]

Top == stack[Len(stack)]

SetTop(f) == [stack EXCEPT ![Len(stack)] = f]

\* The list of the outer loop, and the list of the inner loop for the element
\* the outer loop holds.
OuterList == IF systemsFirst THEN systems ELSE entities

InnerList(cur) == IF systemsFirst THEN sentities[cur] ELSE esystems[cur]

\* The system and the entity of the inner iteration.
InnerSystem(f) == IF systemsFirst THEN f.cur ELSE At(InnerList(f.cur), f.j)

InnerEntity(f) == IF systemsFirst THEN At(InnerList(f.cur), f.j) ELSE f.cur

\* A counter taken from the value read at entry.
CounterFromEntry(f) == f.tick + 1

\* this.updateCounter += 1
CounterAfter(f) == updateCounter + 1

\* update() is called by the program: now and elapsed are read, the traversal
\* starts.
UpdateBegin ==
    /\ stack = <<>>
    /\ updateCounter < MaxTicks
    /\ clock' = clock + 1
    /\ stack' = <<Frame(clock')>>
    /\ UNCHANGED <<entities, systems, initialized,
                   esystems, sentities, eecs, objects,
                   updateCounter, lastUpdate, completed, last>>

\* The outer loop takes its next element.
UpdateOuter ==
    /\ stack # <<>>
    /\ Top.cur = "none"
    /\ Top.i < Len(OuterList)
    /\ stack' = SetTop([Top EXCEPT !.cur = At(OuterList, Top.i), !.j = 0])
    /\ UNCHANGED <<entities, systems, initialized,
                   esystems, sentities, eecs, objects,
                   updateCounter, lastUpdate, clock, completed, last>>

\* The inner loop is over: ++i.
UpdateInnerDone ==
    /\ stack # <<>>
    /\ Top.cur # "none"
    /\ Top.j >= Len(InnerList(Top.cur))
    /\ stack' = SetTop([Top EXCEPT !.cur = "none", !.i = @ + 1])
    /\ UNCHANGED <<entities, systems, initialized,
                   esystems, sentities, eecs, objects,
                   updateCounter, lastUpdate, clock, completed, last>>

\* The pair is skipped: continue.
UpdateSkip ==
    /\ stack # <<>>
    /\ Top.cur # "none"
    /\ Top.j < Len(InnerList(Top.cur))
    /\ Skipped(InnerSystem(Top))
    /\ stack' = SetTop([Top EXCEPT !.j = @ + 1])
    /\ UNCHANGED <<entities, systems, initialized,
                   esystems, sentities, eecs, objects,
                   updateCounter, lastUpdate, clock, completed, last>>

\* The frame after system.update(entity, elapsed) has been called and its
\* callback has made the registry call cb (<<>>: none).  The callback is
\* logged with the position in `calls` of the update call that made it.
Dispatched(f, cb) ==
    [f EXCEPT !.j = @ + 1,
              !.calls = Append(@, <<InnerEntity(f), InnerSystem(f)>>),
              !.callbacks = IF cb = <<>>
                            THEN @
                            ELSE Append(@, Append(cb, Len(f.calls) + 1))]

CanDispatch ==
    /\ stack # <<>>
    /\ Top.cur # "none"
    /\ Top.j < Len(InnerList(Top.cur))
    /\ ~Skipped(InnerSystem(Top))

CanCallBack == Len(Top.callbacks) < MaxCallbacks

\* system.update(entity, elapsed), whose callback leaves the registry alone,
\* or calls addEntity, removeEntity, addSystem, removeSystem or update().
UpdateDispatch ==
    /\ CanDispatch
    /\ \/ /\ stack' = SetTop(Dispatched(Top, <<>>))
          /\ UNCHANGED <<entities, systems, initialized,
                         esystems, sentities, eecs, clock>>
       \/ \E e \in Entities :
            /\ CanCallBack
            /\ CanAddEntity(e)
            /\ DoAddEntity(e)
            /\ stack' = SetTop(Dispatched(Top, <<"addEntity", e>>))
            /\ UNCHANGED clock
       \/ \E e \in Entities :
            /\ CanCallBack
            /\ DoRemoveEntity(e)
            /\ stack' = SetTop(Dispatched(Top, <<"removeEntity", e>>))
            /\ UNCHANGED clock
       \/ \E s \in Systems :
            /\ CanCallBack
            /\ CanAddSystem(s)
            /\ DoAddSystem(s)
            /\ stack' = SetTop(Dispatched(Top, <<"addSystem", s>>))
            /\ UNCHANGED clock
       \/ \E s \in Systems :
            /\ CanCallBack
            /\ DoRemoveSystem(s)
            /\ stack' = SetTop(Dispatched(Top, <<"removeSystem", s>>))
            /\ UNCHANGED clock
       \/ /\ CanCallBack
          /\ Len(stack) < MaxDepth
          /\ updateCounter + Len(stack) < MaxTicks
          /\ clock' = clock + 1
          /\ stack' = Append(SetTop(Dispatched(Top, <<"update", "none">>)),
                             Frame(clock'))
          /\ UNCHANGED <<entities, systems, initialized,
                         esystems, sentities, eecs>>
    /\ UNCHANGED <<objects, updateCounter, lastUpdate, completed, last>>

\* The outer loop is over: the counter and the timestamp are written and
\* update() returns.
UpdateEnd ==
    /\ stack # <<>>
    /\ Top.cur = "none"
    /\ Top.i >= Len(OuterList)
    /\ updateCounter' = CounterAfter(Top)
    /\ lastUpdate' = Top.now
    /\ stack' = SubSeq(stack, 1, Len(stack) - 1)
    /\ completed' = completed + 1
    /\ last' = Call("update", "none", 0, "undefined", FALSE, Top.calls)
    /\ UNCHANGED <<entities, systems, initialized,
                   esystems, sentities, eecs, objects,
                   clock>>

----------------------------------------------------------------------------
\* What callers do to the objects outside the registry.

\* An addComponent that re-evaluates the predicates of the registered systems
\* at once and attaches the entity to the systems it has come to match.
AddComponentEager(entity, name) ==
    /\ stack = <<>>
    /\ name \notin components[entity]
    /\ components' = [components EXCEPT ![entity] = @ \cup {name}]
    /\ LET now == {s \in Range(systems) :
                      /\ entity \in Range(entities)
                      /\ Required[s] \subseteq components'[entity]
                      /\ s \notin Range(esystems[entity])}
       IN  /\ esystems' = [esystems EXCEPT ![entity] =
                   IF now = {} THEN @ ELSE Append(@, CHOOSE s \in now : TRUE)]
           /\ sentities' = [s \in Systems |->
                   IF now # {} /\ s = (CHOOSE x \in now : TRUE)
                   THEN Append(sentities[s], entity)
                   ELSE sentities[s]]
    /\ last' = Call("addComponent", entity, 0, "undefined", FALSE, <<>>)
    /\ UNCHANGED <<entities, systems, initialized,
                   eecs, ticking, systemsFirst, enable,
                   frequency>>

\* entity.addComponent(name) / entity.removeComponent(name): the registry is
\* not told, and no system's predicate is evaluated.
AddComponent(entity, name) ==
    /\ stack = <<>>
    /\ name \notin components[entity]
    /\ components' = [components EXCEPT ![entity] = @ \cup {name}]
    /\ last' = Call("addComponent", entity, 0, "undefined", FALSE, <<>>)
    /\ UNCHANGED <<entities, systems, initialized,
                   esystems, sentities, eecs, ticking,
                   systemsFirst, enable, frequency>>

RemoveComponent(entity, name) ==
    /\ stack = <<>>
    /\ name \in components[entity]
    /\ components' = [components EXCEPT ![entity] = @ \ {name}]
    /\ last' = Call("removeComponent", entity, 0, "undefined", FALSE, <<>>)
    /\ UNCHANGED <<entities, systems, initialized,
                   esystems, sentities, eecs, ticking,
                   systemsFirst, enable, frequency>>

\* system.enable = flag
SetEnable(system, flag) ==
    /\ stack = <<>>
    /\ enable[system] # flag
    /\ enable' = [enable EXCEPT ![system] = flag]
    /\ last' = Call("setEnable", system, 0, "undefined", FALSE, <<>>)
    /\ UNCHANGED <<entities, systems, initialized,
                   esystems, sentities, eecs, ticking,
                   systemsFirst, components, frequency>>

----------------------------------------------------------------------------
\* Specifications.

\* Registration only.
NextRegister ==
    \/ \E e \in Entities : AddEntity(e)
    \/ \E s \in Systems : AddSystem(s)

SpecRegister == Init /\ [][NextRegister]_vars

\* Membership: registration, removal, component changes and lookup.  None of
\* these reads the traversal mode or the frequencies, which are held fixed.
InitMembers ==
    /\ Init
    /\ ~systemsFirst
    /\ frequency = [s \in Systems |-> 1]

NextMembers ==
    \/ \E e \in Entities : AddEntity(e)
    \/ \E e \in Entities : RemoveEntity(e)
    \/ \E s \in Systems : AddSystem(s)
    \/ \E s \in Systems : RemoveSystem(s)
    \/ \E id \in Ids : GetEntityById(id)
    \/ \E e \in Entities, c \in Components : AddComponent(e, c)
    \/ \E e \in Entities, c \in Components : RemoveComponent(e, c)

SpecMembers == InitMembers /\ [][NextMembers]_vars

\* Ticks: registration, removal, enabling and update() with callbacks that
\* leave the registry alone.  The entities keep the components they were
\* constructed with: e1 matches no system or s1, e2 matches s1 or both.
InitTick ==
    /\ Init
    /\ components["e1"] \in {{}, {"pos"}}
    /\ components["e2"] \in {{"pos"}, {"pos", "vel"}}

NextTick ==
    \/ \E e \in Entities : AddEntity(e)
    \/ \E e \in Entities : RemoveEntity(e)
    \/ \E s \in Systems : AddSystem(s)
    \/ \E s \in Systems : RemoveSystem(s)
    \/ \E s \in Systems, b \in BOOLEAN : SetEnable(s, b)
    \/ Update

SpecTick == InitTick /\ [][NextTick]_vars

\* Reentrancy: registration, and update() running step by step with callbacks
\* that call addEntity, removeEntity, addSystem, removeSystem and update().
\* The systems stay enabled; the entities are those of the specification's
\* scenario, e1 with {pos} and e2 with {pos, vel}; s1 runs every second tick.
InitReentrant ==
    /\ Init
    /\ components = [e \in Entities |->
                        IF e = "e1" THEN {"pos"} ELSE {"pos", "vel"}]
    /\ frequency["s1"] = 2

NextReentrant ==
    \/ \E e \in Entities : AddEntity(e)
    \/ \E s \in Systems : AddSystem(s)
    \/ UpdateBegin
    \/ UpdateOuter
    \/ UpdateInnerDone
    \/ UpdateSkip
    \/ UpdateDispatch
    \/ UpdateEnd

SpecReentrant == InitReentrant /\ [][NextReentrant]_vars

\* Everything.
Next ==
    \/ NextMembers
    \/ NextTick
    \/ NextReentrant

Spec == Init /\ [][Next]_vars

----------------------------------------------------------------------------
\* Properties.

Registered(e) == e \in Range(entities)

Tracks(s, e) == e \in Range(sentities[s])

\* The number of system.update(e, ...) calls s received in the last call.
Updates(s, e) == Count(last.calls, <<e, s>>)

\* The tick counter value at the entry of the update() that returned last.
EntryTick == updateCounter - 1

\* C1: after addEntity and addSystem calls only (nothing removed, no component
\* changed, nothing added twice), a registered entity is in a registered
\* system's tracked list if and only if the system's predicate holds of it
\* (the predicate's value is then the one it had when the later of the two
\* was added).
C1_MembershipCorrect ==
    \A e \in Range(entities), s \in Range(systems) : Tracks(s, e) <=> Test(s, e)

C1_Witness ==
    /\ Len(entities) = 2
    /\ Len(systems) = 2
    /\ \E e \in Entities, s \in Systems : Tracks(s, e) /\ Test(s, e)
    /\ \E e \in Entities, s \in Systems : ~Tracks(s, e) /\ ~Test(s, e)

\* C2: in every population reached by addEntity, removeEntity, addSystem and
\* removeSystem, the set of (entity, system) pairs update() dispatches is the
\* same in the entities-first and in the systems-first traversal.
C2_DualTraversal ==
    stack = <<>> => Range(UpdateEntities) = Range(UpdateSystems)

\* C3: in an update(), a registered and enabled system of frequency n gets
\* exactly one update call for each entity it tracks when the tick counter at
\* entry is a multiple of n, and no update call otherwise, whenever the system
\* was registered.
C3_FrequencyGating ==
    last.op = "update" =>
        \A s \in Range(systems) :
            enable[s] =>
                \A e \in Entities :
                    Updates(s, e) =
                        IF EntryTick % frequency[s] = 0 /\ Tracks(s, e)
                        THEN 1
                        ELSE 0

\* C4: a system whose enable flag is false gets no update call in any
\* update(), in either traversal, also when the tick counter is a multiple of
\* its frequency.
C4_DisableGating ==
    last.op = "update" =>
        \A s \in Systems : ~enable[s] => \A e \in Entities : Updates(s, e) = 0

C4_Witness ==
    /\ last.op = "update"
    /\ \E s \in Range(systems), e \in Range(entities) :
        /\ ~enable[s]
        /\ EntryTick % frequency[s] = 0
        /\ Tracks(s, e)
        /\ s \in Range(esystems[e])
    /\ last.calls # <<>>

\* C5: removeEntity(e) on a registered e leaves e in no system's tracked
\* list, shortens the tracked list of every system that tracked e by exactly
\* one, and takes e out of the registry's entity list.
C5_DisposalDetachment ==
    [][\A e \in Entities :
          (RemoveEntity(e) /\ Registered(e)) =>
              /\ \A s \in Systems : e \notin Range(sentities'[s])
              /\ \A s \in Systems :
                    Tracks(s, e) => Len(sentities'[s]) = Len(sentities[s]) - 1
              /\ e \notin Range(entities')]_vars

\* C6: removeEntity(e) on an e that is not in the entity list returns e, does
\* not call e.dispose(), and leaves the entity list, the system list and the
\* tracked lists and membership caches as they were.
C6_IdempotentRemoval ==
    [][\A e \in Entities :
          (last'.op = "removeEntity" /\ last'.arg = e /\ ~Registered(e)) =>
              /\ last'.ret = e
              /\ ~last'.disposed
              /\ UNCHANGED <<entities, systems, esystems, sentities>>]_vars

C6_Witness ==
    /\ last.op = "removeEntity"
    /\ ~last.disposed
    /\ eecs[last.arg]
    /\ ~Registered(last.arg)
    /\ entities # <<>>
    /\ \E s \in Range(systems) : sentities[s] # <<>>

\* C7, as claimed: removeSystem(s) on a system that is not registered changes
\* no list and returns s.
C7_ReturnsInput ==
    [][\A s \in Systems :
          (last'.op = "removeSystem" /\ last'.arg = s /\ s \notin Range(systems)) =>
              /\ last'.ret = s
              /\ UNCHANGED <<entities, systems, esystems, sentities>>]_vars

\* C7, amended: removeSystem(s) on a system that is not registered changes no
\* list, does not call s.dispose(), and returns undefined.
C7_SilentNoOp ==
    [][\A s \in Systems :
          (last'.op = "removeSystem" /\ last'.arg = s /\ s \notin Range(systems)) =>
              /\ last'.ret = "undefined"
              /\ ~last'.disposed
              /\ UNCHANGED <<entities, systems, esystems, sentities>>]_vars

C7_Witness ==
    /\ last.op = "removeSystem"
    /\ ~last.disposed
    /\ last.ret = "undefined"
    /\ systems # <<>>
    /\ entities # <<>>

\* C8: adding or removing a component of a registered entity changes no
\* tracked list and no membership cache, also when the entity then matches a
\* system that does not track it.
C8_LazyMembership ==
    [][(last'.op \in {"addComponent", "removeComponent"}
            /\ Registered(last'.arg)) =>
          UNCHANGED <<entities, systems, esystems, sentities>>]_vars

C8_Witness ==
    /\ last.op = "addComponent"
    /\ Registered(last.arg)
    /\ \E s \in Range(systems) : Test(s, last.arg) /\ ~Tracks(s, last.arg)

\* C10: getEntityById(id) returns the registered entity whose id is id when
\* there is one in the entity list, and null otherwise, as for the id of an
\* entity that has been removed.
C10_Lookup ==
    last.op = "getEntityById" =>
        IF \E e \in Range(entities) : EntityId[e] = last.id
        THEN last.ret \in Range(entities) /\ EntityId[last.ret] = last.id
        ELSE last.ret = "null"

C10_Witness ==
    /\ last.op = "getEntityById"
    /\ last.ret = "null"
    /\ entities # <<>>
    /\ \E e \in Entities :
        EntityId[e] = last.id /\ eecs[e] /\ ~Registered(e)

\* C9: the tick counter starts at 0 and equals the number of update() calls
\* that have returned, reentrant ones included; a step changes it only by
\* adding one as an update() call returns.
C9_TickCounter ==
    /\ [](updateCounter = completed)
    /\ [][\/ updateCounter' = updateCounter
          \/ /\ updateCounter' = updateCounter + 1
             /\ stack # <<>>
             /\ stack' = SubSeq(stack, 1, Len(stack) - 1)
             /\ last'.op = "update"]_vars

C9_Witness ==
    /\ stack = <<>>
    /\ updateCounter = 3
    /\ completed = 3
    /\ clock = 3
    /\ lastUpdate < 3

\* C11: after addEntity, removeEntity, addSystem and removeSystem calls that
\* never add what is registered, no tracked list holds an entity twice and no
\* membership cache holds a system twice, also after a system was removed and
\* added again.
C11_NoDuplicates ==
    \A e \in Entities, s \in Systems :
        Count(sentities[s], e) <= 1 /\ Count(esystems[e], s) <= 1

\* C15: a system that removeSystem has taken out of the registry, and that has
\* not been added again, gets no update call in a later update(), in either
\* traversal.
C15_RemovedNotUpdated ==
    last.op = "update" =>
        \A s \in Systems \ Range(systems), e \in Entities : Updates(s, e) = 0

\* C16: between registry calls, an entity is in a system's tracked list if and
\* only if the system is in the entity's membership cache, and as many times.
C16_SymmetricAttachment ==
    \A e \in Entities, s \in Systems :
        /\ Tracks(s, e) <=> s \in Range(esystems[e])
        /\ Count(sentities[s], e) = Count(esystems[e], s)

C16_Witness ==
    /\ last.op = "removeEntity"
    /\ last.disposed
    /\ \E e \in Range(entities), s \in Systems :
        /\ s \notin Range(systems)
        /\ Tracks(s, e)
        /\ s \in Range(esystems[e])
    /\ \E e \in Range(entities), s \in Range(systems) : Tracks(s, e)

\* C19: after removeEntity(e) on a registered e, e no longer references the
\* registry as its owner.
C19_BackReferenceCleared ==
    (last.op = "removeEntity" /\ last.disposed) => ~eecs[last.arg]

\* C20: an update() whose callbacks leave the registry alone changes the tick
\* counter and the last-update timestamp only: the entity list, the system
\* list, every tracked list and every membership cache are the same, contents
\* and order, after the call as before it, and so are the objects' fields.
C20_UpdateFrame ==
    [][(completed' = completed + 1) =>
          /\ UNCHANGED <<entities, systems, esystems, sentities>>
          /\ UNCHANGED <<eecs, systemsFirst, components, enable, frequency>>
          /\ updateCounter' = updateCounter + 1
          /\ lastUpdate' = clock']_vars

C20_Witness ==
    /\ last.op = "update"
    /\ Len(last.calls) >= 2
    /\ Len(entities) = 2
    /\ Len(systems) = 2
    /\ updateCounter = 2
    /\ lastUpdate = clock

IsTest(event) == event[1] = "test"

\* C17: addSystem(s) calls s.initialize() exactly once, after s was appended
\* to the system list and before any entity is attached by the call; every
\* registered entity is then tested, in entity-list order, and attached right
\* after its test exactly when the test passes.
C17_InitializeOrder ==
    last.op = "addSystem" =>
        LET s == last.arg
            ev == last.events
        IN  /\ Len(ev) >= 2
            /\ ev[1] = <<"push", s>>
            /\ ev[2] = <<"initialize", s>>
            /\ Count(ev, <<"initialize", s>>) = 1
            /\ At(systems, Len(systems) - 1) = s
            /\ SelectSeq(ev, IsTest)
                   = [k \in 1..Len(entities) |-> <<"test", entities[k]>>]
            /\ \A k \in 1..Len(ev) :
                   ev[k][1] = "attach" =>
                       /\ k > 2
                       /\ ev[k - 1] = <<"test", ev[k][2]>>
                       /\ Test(s, ev[k][2])
            /\ \A k \in 1..Len(ev) :
                   (ev[k][1] = "test" /\ Test(s, ev[k][2])) =>
                       /\ k < Len(ev)
                       /\ ev[k + 1] = <<"attach", ev[k][2]>>

C17_Witness ==
    /\ last.op = "addSystem"
    /\ Len(entities) = 2
    /\ Len(last.events) = 5
    /\ last.events[2] = <<"initialize", last.arg>>
    /\ \E e \in Range(entities) : <<"attach", e>> \in Range(last.events)
    /\ \E e \in Range(entities) : <<"attach", e>> \notin Range(last.events)

\* C18: removeSystem(s) on a registered s calls s.dispose() exactly once, and
\* only after s was taken out of the system list; on an s that is not
\* registered it does not call dispose(); so a system never has more dispose()
\* calls than initialize() calls behind it.
C18_DisposeOrder ==
    /\ [](\A s \in Systems : initialized[s] >= 0)
    /\ [][\A s \in Systems :
            (last'.op = "removeSystem" /\ last'.arg = s) =>
                IF s \in Range(systems)
                THEN /\ last'.events = <<<<"splice", s>>, <<"dispose", s>>>>
                     /\ s \notin Range(systems')
                     /\ initialized'[s] = initialized[s] - 1
                ELSE /\ last'.events = <<>>
                     /\ initialized'[s] = initialized[s]]_vars

C18_Witness ==
    /\ last.op = "removeSystem"
    /\ last.events = <<<<"splice", last.arg>>, <<"dispose", last.arg>>>>
    /\ last.arg \notin Range(systems)
    /\ initialized[last.arg] = 0
    /\ \E e \in Entities : Count(sentities[last.arg], e) = 2
    /\ \E s \in Range(systems) : initialized[s] = 1

\* The outer loop of the frame is over: update() is about to return.
Finished(f) == f.cur = "none" /\ f.i >= Len(OuterList)

\* The frame called system.update(e, ...) on s after its n-th update call.
CalledAfter(f, n, e, s) ==
    \E k \in (n + 1)..Len(f.calls) : f.calls[k] = <<e, s>>

\* The only registry call the callbacks of the frame made.
OnlyCallback(f) == f.callbacks[1]

\* C12 (as stated): entities-first, when the callback of an update call on
\* entity e calls removeEntity(e), the systems that follow in e's membership
\* cache and are not gated are still ahead of the inner loop, which goes on to
\* call them for e.
C12_StaleDispatch ==
    [][\A e \in Entities :
          (/\ ~systemsFirst
           /\ CanDispatch
           /\ Top.cur = e
           /\ Registered(e)
           /\ Len(stack') = Len(stack)
           /\ Top'.callbacks =
                  Append(Top.callbacks,
                         <<"removeEntity", e, Len(Top.calls) + 1>>)) =>
              \A k \in (Top.j + 2)..Len(esystems[e]) :
                  ~Skipped(esystems[e][k]) =>
                      /\ Top'.cur = e
                      /\ k <= Len(InnerList(e)')
                      /\ InnerList(e)'[k] = esystems[e][k]]_vars

\* C12 (amended): entities-first, when the callback of an update call on
\* entity e calls removeEntity(e) and no other callback of that update()
\* calls the registry, e is out of the entity list with an empty membership
\* cache and gets no further update call in that update().
C12_RemovedNotFinished ==
    \A d \in 1..Len(stack) :
        LET f == stack[d]
            cb == OnlyCallback(f)
        IN  (/\ ~systemsFirst
             /\ Len(f.callbacks) = 1
             /\ cb[1] = "removeEntity"
             /\ f.calls[cb[3]][1] = cb[2]) =>
                /\ ~Registered(cb[2])
                /\ esystems[cb[2]] = <<>>
                /\ \A k \in (cb[3] + 1)..Len(f.calls) : f.calls[k][1] # cb[2]

C12_Witness ==
    /\ ~systemsFirst
    /\ updateCounter = 0
    /\ Len(stack) = 1
    /\ Finished(Top)
    /\ Len(systems) = 2
    /\ Top.callbacks = <<<<"removeEntity", "e2", 1>>>>
    /\ Test("s1", "e2") /\ Test("s2", "e2")
    /\ Len(Top.calls) = 1
    /\ Top.calls[1][1] = "e2"

\* C13 (as stated): an entity or a system that a callback adds during an
\* update() call gets no update call during that same update() call.
C13_SnapshotDispatch ==
    \A d \in 1..Len(stack) :
        LET f == stack[d]
        IN  \A c \in 1..Len(f.callbacks) :
                LET cb == f.callbacks[c]
                IN  /\ cb[1] = "addEntity" =>
                           \A k \in (cb[3] + 1)..Len(f.calls) :
                               f.calls[k][1] # cb[2]
                    /\ cb[1] = "addSystem" =>
                           \A k \in (cb[3] + 1)..Len(f.calls) :
                               f.calls[k][2] # cb[2]

\* C13 (amended): the loops read the list lengths at every iteration.  When
\* the only registry call the callbacks of an update() make is an addEntity(e),
\* that same update() calls e afterwards: entities-first on every system that
\* is attached to e and not gated, systems-first on the system whose callback
\* added e and on the systems after it in the system list, where they track e
\* and are not gated.  When it is an addSystem(s), that same update() calls s
\* afterwards, if s is not gated: systems-first on every entity s tracks,
\* entities-first on the entity whose update call added s and on the entities
\* after it in the entity list, where s tracks them.
C13_LiveBounds ==
    (stack # <<>> /\ Finished(Top) /\ Len(Top.callbacks) = 1) =>
        LET cb == OnlyCallback(Top)
            n == cb[3]
            entity == Top.calls[n][1]
            system == Top.calls[n][2]
        IN  /\ (cb[1] = "addEntity" /\ ~systemsFirst) =>
                   \A s \in Range(esystems[cb[2]]) :
                       ~Skipped(s) => CalledAfter(Top, n, cb[2], s)
            /\ (cb[1] = "addEntity" /\ systemsFirst) =>
                   \A s \in Range(systems) :
                       (/\ IndexOf(systems, s) >= IndexOf(systems, system)
                        /\ Tracks(s, cb[2])
                        /\ ~Skipped(s)) => CalledAfter(Top, n, cb[2], s)
            /\ (cb[1] = "addSystem" /\ systemsFirst) =>
                   \A e \in Range(sentities[cb[2]]) :
                       ~Skipped(cb[2]) => CalledAfter(Top, n, e, cb[2])
            /\ (cb[1] = "addSystem" /\ ~systemsFirst) =>
                   \A e \in Range(entities) :
                       (/\ IndexOf(entities, e) >= IndexOf(entities, entity)
                        /\ Tracks(cb[2], e)
                        /\ ~Skipped(cb[2])) => CalledAfter(Top, n, e, cb[2])

C13_Witness ==
    /\ stack # <<>>
    /\ Finished(Top)
    /\ Len(Top.callbacks) = 1
    /\ OnlyCallback(Top)[1] = "addEntity"
    /\ \E s \in Range(systems) :
           CalledAfter(Top, OnlyCallback(Top)[3], OnlyCallback(Top)[2], s)
    /\ Len(entities) = 2

\* C14: an entities-first update() in which a callback calls removeEntity on
\* one entity still calls every other registered entity once for each of its
\* attachments to a system that is not gated: no other entity is skipped or
\* visited twice.
C14_OthersDispatchedOnce ==
    (/\ stack # <<>>
     /\ Finished(Top)
     /\ ~systemsFirst
     /\ Len(Top.callbacks) = 1
     /\ OnlyCallback(Top)[1] = "removeEntity") =>
        \A e \in Range(entities) \ {OnlyCallback(Top)[2]}, s \in Systems :
            Count(Top.calls, <<e, s>>)
                = IF Skipped(s) THEN 0 ELSE Count(esystems[e], s)

====
